---- MODULE Spec2Model ----
(***************************************************************************)
(* A model of fdaf-aec (src/src/lib.rs): the frequency-domain adaptive     *)
(* filter FdafAec<FFT_SIZE>, its constructor `new` and its one streaming   *)
(* operation `process`.                                                    *)
(*                                                                         *)
(* Numbers.  The code computes in f32, and so does the model: a number is  *)
(* an IEEE 754 binary32 value <<sign, biased exponent, fraction>>, and     *)
(* +, -, *, / round to nearest, ties to even, with signed zeros,           *)
(* subnormals, infinities and one NaN (the sign and payload of a NaN are   *)
(* not modelled).  A complex number is a record [re, im] of two f32 and    *)
(* its operations are those of num_complex.                                *)
(*                                                                         *)
(* Transforms.  rustfft computes the unnormalised DFT; for the block       *)
(* lengths the model processes (FFT_SIZE 2 and 4) it does so with its      *)
(* Butterfly2 and Butterfly4 kernels, whose additions the model performs   *)
(* in the same order.                                                      *)
(***************************************************************************)
EXTENDS Integers, Sequences, FiniteSets, TLC

VARIABLES
    fftSize,          \* the const generic FFT_SIZE
    status,           \* "unbuilt", "ready" (constructed), "panicked"
    weights,          \* self.weights          (W, complex, length FFT_SIZE)
    far_end_buffer,   \* self.far_end_buffer   (xhist, real, length FFT_SIZE)
    x_t_buffer,       \* self.x_t_buffer       (Xbuf, complex)
    e_t_buffer,       \* self.e_t_buffer       (Ebuf, complex)
    y_t,              \* self.y_t              (Ytime, real)
    psd,              \* self.psd              (PSD, real)
    mu,               \* self.mu
    smoothing_factor, \* self.smoothing_factor
    error_signal,     \* the caller's output frame of the last successful call
    mic_frame,        \* the mic frame of the last successful call
    calls,            \* number of successful process calls
    farLog,           \* every far-end sample supplied so far, oldest first
    micLog            \* every mic sample supplied so far, oldest first

vars == <<fftSize, status, weights, far_end_buffer, x_t_buffer, e_t_buffer,
          y_t, psd, mu, smoothing_factor, error_signal, mic_frame, calls,
          farLog, micLog>>

procState == <<weights, far_end_buffer, x_t_buffer, e_t_buffer, y_t, psd,
               mu, smoothing_factor>>

-----------------------------------------------------------------------------
(* Bounds of the model *)

\* number of successful process calls explored
MaxCalls == 3

\* amplitude of the non-zero samples fed to process
MaxSample == 1

\* largest FFT_SIZE tried by the constructor-only specification SpecNew
MaxFftSize == 2048

-----------------------------------------------------------------------------
(* f32: IEEE 754 binary32, round to nearest, ties to even *)

\* an f32 is <<sign, biased exponent, fraction>>: sign in 0..1, exponent in
\* 0..255, fraction in 0..2^23 - 1
F32(s, e, f) == <<s, e, f>>

Hidden == 8388608

NaN == F32(0, 255, 4194304)

Inf(s) == F32(s, 255, 0)

Zero(s) == F32(s, 0, 0)

IsNaN(x) == x[2] = 255 /\ x[3] # 0

IsInf(x) == x[2] = 255 /\ x[3] = 0

IsZero(x) == x[2] = 0 /\ x[3] = 0

is_finite(x) == x[2] < 255

Abs(a) == IF a < 0 THEN -a ELSE a

\* the number of binary digits of m >= 0
RECURSIVE BitLen(_)
BitLen(m) ==
    IF m >= 65536 THEN 16 + BitLen(m \div 65536)
    ELSE IF m >= 256 THEN 8 + BitLen(m \div 256)
    ELSE IF m >= 16 THEN 4 + BitLen(m \div 16)
    ELSE IF m >= 4 THEN (IF m >= 8 THEN 4 ELSE 3)
    ELSE IF m >= 2 THEN 2 ELSE m

\* a finite non-zero x is Sig(x) * 2^(Exp(x) - 150), with
\* 2^23 <= Sig(x) < 2^24 (a subnormal is normalised)
Lead(x) == IF x[2] = 0 THEN 24 - BitLen(x[3]) ELSE 0

Sig(x) == IF x[2] = 0 THEN x[3] * 2^Lead(x) ELSE Hidden + x[3]

Exp(x) == IF x[2] = 0 THEN 1 - Lead(x) ELSE x[2]

\* m / 2^k rounded to the nearest integer, ties to the even one (k >= 1)
RoundShift(m, k) ==
    IF k > 30 THEN 0
    ELSE LET q == m \div 2^k
             rem == m % 2^k
             half == 2^(k - 1)
         IN  IF rem > half \/ (rem = half /\ q % 2 = 1) THEN q + 1 ELSE q

\* the f32 with sign s, exponent field e >= 1 and significand sig <= 2^24,
\* sig < 2^23 only for e = 1 (a subnormal)
Pack(s, e, sig) ==
    IF sig >= 2 * Hidden THEN (IF e + 1 >= 255 THEN Inf(s) ELSE F32(s, e + 1, 0))
    ELSE IF sig >= Hidden THEN (IF e >= 255 THEN Inf(s) ELSE F32(s, e, sig - Hidden))
    ELSE F32(s, 0, sig)

\* the f32 nearest to (-1)^s * m * 2^(x - 150), for 0 <= m < 2^30
RoundPack(s, x, m) ==
    IF m = 0 THEN Zero(s)
    ELSE LET k == BitLen(m) - 24
         IN  IF x + k < 1
             THEN Pack(s, 1, IF 1 - x <= 0 THEN m * 2^(x - 1)
                                ELSE RoundShift(m, 1 - x))
             ELSE Pack(s, x + k, IF k <= 0 THEN m * 2^(-k) ELSE RoundShift(m, k))

\* i as f32, for |i| < 2^24 (exact)
R(i) == RoundPack(IF i < 0 THEN 1 ELSE 0, 150, Abs(i))

RZero == R(0)

ROne == R(1)

RNeg(x) == F32(1 - x[1], x[2], x[3])

\* |x| < |y|
MagLess(x, y) == x[2] < y[2] \/ (x[2] = y[2] /\ x[3] < y[3])

\* m / 2^k with every digit shifted out or'ed into the last one kept
ShiftJam(m, k) ==
    IF k = 0 THEN m
    ELSE IF k > 30 THEN (IF m = 0 THEN 0 ELSE 1)
    ELSE LET q == m \div 2^k
         IN  IF m % 2^k = 0 THEN q ELSE IF q % 2 = 1 THEN q ELSE q + 1

\* x + y for finite non-zero x, y with |x| >= |y|: three guard digits
AddOrdered(x, y) ==
    LET a == 8 * Sig(x)
        b == ShiftJam(8 * Sig(y), Exp(x) - Exp(y))
    IN  IF x[1] = y[1] THEN RoundPack(x[1], Exp(x) - 3, a + b)
        ELSE IF a = b THEN Zero(0)
        ELSE RoundPack(x[1], Exp(x) - 3, a - b)

\* x + y rounded to nearest, ties to even
Sum(x, y) ==
    IF IsNaN(x) \/ IsNaN(y) THEN NaN
    ELSE IF IsInf(x) THEN (IF IsInf(y) /\ x[1] # y[1] THEN NaN ELSE x)
    ELSE IF IsInf(y) THEN y
    ELSE IF IsZero(x) THEN (IF IsZero(y) THEN Zero(IF x[1] = 1 /\ y[1] = 1 THEN 1 ELSE 0)
                            ELSE y)
    ELSE IF IsZero(y) THEN x
    ELSE IF MagLess(x, y) THEN AddOrdered(y, x) ELSE AddOrdered(x, y)

\* x + y, the operands evaluated once before the operation reads them
RAdd(x, y) == CHOOSE r \in {Sum(a, b) : a \in {x}, b \in {y}} : TRUE

RSub(x, y) == RAdd(x, RNeg(y))

\* the 48-digit product a * b of two 24-digit significands, as its upper 27
\* digits with the lower 21 or'ed into the last one
SigProduct(a, b) ==
    LET a1 == a \div 4096
        a0 == a % 4096
        b1 == b \div 4096
        b0 == b % 4096
        mid == a1 * b0 + a0 * b1
        low == a0 * b0 + (mid % 4096) * 4096
        hi == a1 * b1 + mid \div 4096 + low \div 16777216
        lo == low % 16777216
        top == 8 * hi + lo \div 2097152
    IN  IF lo % 2097152 = 0 \/ top % 2 = 1 THEN top ELSE top + 1

\* x * y rounded to nearest, ties to even
Product(x, y) ==
    LET s == IF x[1] = y[1] THEN 0 ELSE 1
    IN  IF IsNaN(x) \/ IsNaN(y) THEN NaN
        ELSE IF IsInf(x) \/ IsInf(y)
             THEN (IF IsZero(x) \/ IsZero(y) THEN NaN ELSE Inf(s))
        ELSE IF IsZero(x) \/ IsZero(y) THEN Zero(s)
        ELSE RoundPack(s, Exp(x) + Exp(y) - 129, SigProduct(Sig(x), Sig(y)))

\* x * y, the operands evaluated once before the operation reads them
RMul(x, y) == CHOOSE r \in {Product(a, b) : a \in {x}, b \in {y}} : TRUE

\* the quotient digits of r / b continued: q so far, n digits still to come
RECURSIVE Quotient(_, _, _, _)
Quotient(q, r, b, n) ==
    IF n = 0 THEN (IF r = 0 THEN 2 * q ELSE 2 * q + 1)
    ELSE LET c == IF n >= 7 THEN 7 ELSE n
         IN  Quotient(q * 2^c + (r * 2^c) \div b, (r * 2^c) % b, b, n - c)

\* x / y rounded to nearest, ties to even
Ratio(x, y) ==
    LET s == IF x[1] = y[1] THEN 0 ELSE 1
    IN  IF IsNaN(x) \/ IsNaN(y) THEN NaN
        ELSE IF IsInf(x) THEN (IF IsInf(y) THEN NaN ELSE Inf(s))
        ELSE IF IsInf(y) THEN Zero(s)
        ELSE IF IsZero(y) THEN (IF IsZero(x) THEN NaN ELSE Inf(s))
        ELSE IF IsZero(x) THEN Zero(s)
        ELSE RoundPack(s, Exp(x) - Exp(y) + 122,
                       Quotient(Sig(x) \div Sig(y), Sig(x) % Sig(y), Sig(y), 27))

\* x / y, the operands evaluated once before the operation reads them
RDiv(x, y) == CHOOSE r \in {Ratio(a, b) : a \in {x}, b \in {y}} : TRUE

\* n / d as f32, for |n|, |d| < 2^24: the f32 nearest to the quotient
Frac(n, d) == RDiv(R(n), R(d))

\* x < y (false when either is NaN; -0 and +0 are equal)
RLess(x, y) ==
    IF IsNaN(x) \/ IsNaN(y) THEN FALSE
    ELSE IF IsZero(x) /\ IsZero(y) THEN FALSE
    ELSE IF x[1] # y[1] THEN x[1] = 1
    ELSE IF x[1] = 0 THEN MagLess(x, y) ELSE MagLess(y, x)

\* x > 0.0
RPos(x) == RLess(RZero, x)

\* x == y as f32 compare (false for NaN; -0 == +0)
REq(x, y) == ~IsNaN(x) /\ ~IsNaN(y) /\ (x = y \/ (IsZero(x) /\ IsZero(y)))

RECURSIVE RPow(_, _)
RPow(x, n) == IF n = 0 THEN ROne ELSE RMul(x, RPow(x, n - 1))

-----------------------------------------------------------------------------
(* Complex<f32> *)

Cx(re, im) == [re |-> re, im |-> im]

CZero == Cx(RZero, RZero)

CAdd(a, b) == Cx(RAdd(a.re, b.re), RAdd(a.im, b.im))

CSub(a, b) == Cx(RSub(a.re, b.re), RSub(a.im, b.im))

CMul(a, b) == Cx(RSub(RMul(a.re, b.re), RMul(a.im, b.im)),
                 RAdd(RMul(a.re, b.im), RMul(a.im, b.re)))

conj(c) == Cx(c.re, RNeg(c.im))

norm_sqr(c) == RAdd(RMul(c.re, c.re), RMul(c.im, c.im))

\* Complex /= f32
CDivReal(c, r) == Cx(RDiv(c.re, r), RDiv(c.im, r))

-----------------------------------------------------------------------------
(* FdafAec::new *)

FRAME_SIZE(N) == N \div 2

\* usize::is_power_of_two: exactly one bit set
RECURSIVE is_power_of_two(_)
is_power_of_two(n) ==
    IF n <= 0 THEN FALSE
    ELSE IF n = 1 THEN TRUE
    ELSE n % 2 = 0 /\ is_power_of_two(n \div 2)

\* the assertion at the head of new
NewGuard(N) == FRAME_SIZE(N) > 0 /\ is_power_of_two(FRAME_SIZE(N))

\* the value of smoothing_factor set by new: 0.98
SmoothingInit == Frac(98, 100)

\* the seed of every psd bin
PsdSeed == ROne

Idx(N) == 0 .. (N - 1)

\* a buffer once written: the same function, evaluated once by TLC (the
\* comparison tabulates it) instead of at every later read
Stored(f) == IF f = f THEN f ELSE f

\* the struct built by new (the FFT plans carry no state of their own)
NewState(N, step_size) ==
    [weights          |-> [i \in Idx(N) |-> CZero],
     far_end_buffer   |-> [i \in Idx(N) |-> RZero],
     x_t_buffer       |-> [i \in Idx(N) |-> CZero],
     e_t_buffer       |-> [i \in Idx(N) |-> CZero],
     psd              |-> [i \in Idx(N) |-> PsdSeed],
     y_t              |-> [i \in Idx(N) |-> RZero],
     mu               |-> step_size,
     smoothing_factor |-> SmoothingInit]

\* new(step_size): panics when the guard fails, else returns the struct
New(N, step_size) ==
    IF NewGuard(N)
    THEN [ok |-> TRUE, st |-> NewState(N, step_size)]
    ELSE [ok |-> FALSE, st |-> <<>>]

-----------------------------------------------------------------------------
(* The transforms planned by new and run by process *)

\* twiddles::rotate_90: c * -i for the forward plan, c * i for the inverse
rotate_90(c, inverse) ==
    IF inverse THEN Cx(RNeg(c.im), c.re) ELSE Cx(c.im, RNeg(c.re))

\* Butterfly2: (left, right) becomes (left + right, left - right)
Butterfly2(buf) ==
    Stored([k \in Idx(2) |-> IF k = 0 THEN CAdd(buf[0], buf[1])
                                     ELSE CSub(buf[0], buf[1])])

\* Butterfly4: Butterfly2 on (0, 2) and on (1, 3), the second difference
\* rotated by a quarter turn, then Butterfly2 on the sums and on the
\* differences, stored in the order 0, 2, 1, 3
Butterfly4(buf, inverse) ==
    LET sum02 == CAdd(buf[0], buf[2])
        dif02 == CSub(buf[0], buf[2])
        sum13 == CAdd(buf[1], buf[3])
        rot13 == rotate_90(CSub(buf[1], buf[3]), inverse)
    IN  Stored([k \in Idx(4) |->
            CASE k = 0 -> CAdd(sum02, sum13)
              [] k = 1 -> CAdd(dif02, rot13)
              [] k = 2 -> CSub(sum02, sum13)
              [] k = 3 -> CSub(dif02, rot13)])

\* self.fft.process(buf): unnormalised forward DFT, in place
Fft(buf, N) ==
    CASE N = 2 -> Butterfly2(buf)
      [] N = 4 -> Butterfly4(buf, FALSE)

\* self.ifft.process(buf): unnormalised inverse DFT, in place
Ifft(buf, N) ==
    CASE N = 2 -> Butterfly2(buf)
      [] N = 4 -> Butterfly4(buf, TRUE)

-----------------------------------------------------------------------------
(* FdafAec::process, step by step *)

\* the new frame written without the old one being moved down first
ShiftHistory_no_shift(buf, far, F, N) ==
    Stored([i \in Idx(N) |-> IF F <= i /\ i < 2 * F THEN far[i - F] ELSE buf[i]])

\* 1. copy_within(F.., 0), then rows F..2F := far_end_frame
ShiftHistory(buf, far, F, N) ==
    LET shifted == Stored([i \in Idx(N) |-> IF i < N - F THEN buf[i + F] ELSE buf[i]])
    IN  Stored([i \in Idx(N) |-> IF F <= i /\ i < 2 * F THEN far[i - F] ELSE shifted[i]])

\* 2. x_t_buffer[idx] = Complex::new(x, 0.0); fft
ReferenceSpectrum(buf, N) == Fft(Stored([i \in Idx(N) |-> Cx(buf[i], RZero)]), N)

\* the two smoothing coefficients exchanged
UpdatePsd_swapped(p, x_f, alpha, N) ==
    Stored([i \in Idx(N) |->
        RAdd(RMul(RSub(ROne, alpha), p[i]), RMul(alpha, norm_sqr(x_f[i])))])

\* the old estimate kept whole instead of being decayed
UpdatePsd_no_decay(p, x_f, alpha, N) ==
    Stored([i \in Idx(N) |->
        RAdd(p[i], RMul(RSub(ROne, alpha), norm_sqr(x_f[i])))])

\* the instantaneous power, with no memory of the old estimate
UpdatePsd_instantaneous(p, x_f, alpha, N) ==
    Stored([i \in Idx(N) |-> norm_sqr(x_f[i])])

\* 3. psd[i] = smoothing * psd[i] + (1 - smoothing) * |x_f[i]|^2
UpdatePsd(p, x_f, alpha, N) ==
    Stored([i \in Idx(N) |->
        RAdd(RMul(alpha, p[i]), RMul(RSub(ROne, alpha), norm_sqr(x_f[i])))])

\* 4-5. y_f = weights (.) x_f; ifft; y_t[idx] = c.re / FFT_SIZE
EstimateEcho(w, x_f, N) ==
    LET y_f == Stored([i \in Idx(N) |-> CMul(w[i], x_f[i])])
        y_t_complex == Ifft(y_f, N)
    IN  Stored([i \in Idx(N) |-> RDiv(y_t_complex[i].re, R(N))])

\* 6-7. error_signal[idx] = mic - y_t[FRAME_SIZE + idx]
ErrorSignal(mic, yt, F) ==
    Stored([i \in Idx(F) |-> RSub(mic[i], yt[F + i])])

\* 8. e_t_buffer = zeros; e_t_buffer[i + FRAME_SIZE] = error_signal[i]; fft
ErrorBlock(err, F, N) ==
    Stored([i \in Idx(N) |->
        IF i >= F /\ i < 2 * F THEN Cx(err[i - F], RZero) ELSE CZero])

ErrorSpectrum(err, F, N) == Fft(ErrorBlock(err, F, N), N)

\* the f32 literal 1e-10 (0x2EDBE6FF)
Epsilon == F32(0, 93, 6022911)

\* c /= p + 1e-10
NlmsQuotient(c, p) == CDivReal(c, RAdd(p, Epsilon))

\* the gradient with the reference spectrum left out of the product
Gradient_without_reference(x, e, den) == NlmsQuotient(e, den)

\* 9a. gradient = conj(x_f) (.) e_f; gradient[i] /= psd[i] + 1e-10
Gradient(x, e, den) == NlmsQuotient(CMul(conj(x), e), den)

\* the update with the step size left out
UpdateWeights_unit_step(w, x_f, e_f, p, step, N) ==
    Stored([i \in Idx(N) |-> CAdd(w[i], Gradient(x_f[i], e_f[i], p[i]))])

\* 9b. weights += gradient * Complex(mu, 0)
UpdateWeights(w, x_f, e_f, p, step, N) ==
    Stored([i \in Idx(N) |->
        CAdd(w[i], CMul(Gradient(x_f[i], e_f[i], p[i]), Cx(step, RZero)))])

\* One statement after another: op applied to the value c has once c is
\* computed (the set brackets make TLC compute c before op reads it)
Then(c, op(_)) == CHOOSE r \in {op(v) : v \in {c}} : TRUE

\* The frame of a process call: self, the const generics and the three
\* arguments.  Each step is one of the numbered blocks of process.

\* 1. Update far-end buffer
Step1(c) == [c EXCEPT !.self.far_end_buffer =
                ShiftHistory(c.self.far_end_buffer, c.far_end_frame, c.F, c.N)]

\* 2. FFT of the far-end signal block (x_f views x_t_buffer)
Step2(c) == [c EXCEPT !.self.x_t_buffer =
                ReferenceSpectrum(c.self.far_end_buffer, c.N)]

\* 3. Update the PSD of the far-end signal
Step3(c) == [c EXCEPT !.self.psd =
                UpdatePsd(c.self.psd, c.self.x_t_buffer, c.self.smoothing_factor, c.N)]

\* 4-5. Estimate the echo and transform it back
Step45(c) == [c EXCEPT !.self.y_t =
                EstimateEcho(c.self.weights, c.self.x_t_buffer, c.N)]

\* 6-7. The error signal, written to the caller's frame
Step67(c) == [c EXCEPT !.error_signal =
                ErrorSignal(c.mic_frame, c.self.y_t, c.F)]

\* the error written into a buffer whose first half was not cleared, so that
\* it still holds the spectrum of the call before
Step8_stale(c) == [c EXCEPT !.self.e_t_buffer =
                Fft(Stored([i \in Idx(c.N) |->
                        IF i >= c.F /\ i < 2 * c.F
                        THEN Cx(c.error_signal[i - c.F], RZero)
                        ELSE c.self.e_t_buffer[i]]), c.N)]

\* 8. FFT of the error signal (e_f views e_t_buffer)
Step8(c) == [c EXCEPT !.self.e_t_buffer =
                ErrorSpectrum(c.error_signal, c.F, c.N)]

\* 9. Update the filter weights
Step9(c) == [c EXCEPT !.self.weights =
                UpdateWeights(c.self.weights, c.self.x_t_buffer, c.self.e_t_buffer,
                              c.self.psd, c.self.mu, c.N)]

\* the output recomputed from the weights the call has just written
ProcessFrame_a_posteriori(c) ==
    Then(Then(Then(Then(Then(Then(Then(Then(Then(c,
        Step1), Step2), Step3), Step45), Step67), Step8), Step9), Step45), Step67)

\* the psd updated after the weights instead of before
ProcessFrame_psd_last(c) ==
    Then(Then(Then(Then(Then(Then(Then(c,
        Step1), Step2), Step45), Step67), Step8), Step9), Step3)

\* the body of process after its assertion: the nine steps in source order
ProcessFrame(c) ==
    Then(Then(Then(Then(Then(Then(Then(c,
        Step1), Step2), Step3), Step45), Step67), Step8), Step9)

\* the frame length checked only after the far-end buffer has been shifted
process_late_assert(st, N, F, out, far, mic) ==
    LET frame == [self |-> st, N |-> N, F |-> F, far_end_frame |-> far,
                  mic_frame |-> mic, error_signal |-> out, panicked |-> FALSE]
    IN  IF F # N \div 2
        THEN [Then(frame, Step1) EXCEPT !.panicked = TRUE]
        ELSE ProcessFrame(frame)

\* process::<F>(out, far, mic) on FdafAec<N>: assert_eq!(F, N / 2) first,
\* then the nine steps.  A panic leaves self and the caller's out as they
\* were.
process(st, N, F, out, far, mic) ==
    LET frame == [self |-> st, N |-> N, F |-> F, far_end_frame |-> far,
                  mic_frame |-> mic, error_signal |-> out, panicked |-> FALSE]
    IN  IF F # N \div 2
        THEN [frame EXCEPT !.panicked = TRUE]
        ELSE ProcessFrame(frame)

-----------------------------------------------------------------------------
(* The state machine *)

\* block lengths the model processes
FftSizes == {2, 4}

\* step sizes given to new
StepSizes == {RZero, Frac(1, 2)}

FarSamples == {R(-MaxSample), RZero, R(MaxSample)}

MicSamples == {RZero, R(MaxSample)}

\* far frames: every mix of silence and the level MaxSample, and the constant
\* level -MaxSample
FarFrames(F) ==
    [Idx(F) -> {RZero, R(MaxSample)}] \cup {[i \in Idx(F) |-> R(-MaxSample)]}

\* mic frames: a constant level over the frame
MicFrames(F) == {[i \in Idx(F) |-> v] : v \in MicSamples}

ConstantFrames(F) == {[i \in Idx(F) |-> v] : v \in FarSamples}

\* frame lengths offered to process: the right one and the wrong ones
FrameSizes(N) == 0 .. N

ToSeq(frame, F) == [i \in 1 .. F |-> frame[i - 1]]

StateOf == [weights          |-> weights,
            far_end_buffer   |-> far_end_buffer,
            x_t_buffer       |-> x_t_buffer,
            e_t_buffer       |-> e_t_buffer,
            psd              |-> psd,
            y_t              |-> y_t,
            mu               |-> mu,
            smoothing_factor |-> smoothing_factor]

Install(st) ==
    /\ weights' = st.weights
    /\ far_end_buffer' = st.far_end_buffer
    /\ x_t_buffer' = st.x_t_buffer
    /\ e_t_buffer' = st.e_t_buffer
    /\ psd' = st.psd
    /\ y_t' = st.y_t
    /\ mu' = st.mu
    /\ smoothing_factor' = st.smoothing_factor

\* the state right after FdafAec::<N>::new(step_size) returned
Started(N, step_size) ==
    \E r \in {New(N, step_size)} :
        /\ r.ok
        /\ fftSize = N
        /\ status = "ready"
        /\ weights = r.st.weights
        /\ far_end_buffer = r.st.far_end_buffer
        /\ x_t_buffer = r.st.x_t_buffer
        /\ e_t_buffer = r.st.e_t_buffer
        /\ psd = r.st.psd
        /\ y_t = r.st.y_t
        /\ mu = r.st.mu
        /\ smoothing_factor = r.st.smoothing_factor
        /\ error_signal = <<>>
        /\ mic_frame = <<>>
        /\ calls = 0
        /\ farLog = <<>>
        /\ micLog = <<>>

Init == \E N \in FftSizes, step_size \in StepSizes : Started(N, step_size)

\* process(error_signal, far, mic) with frames of the right length F
Called(F, far, mic) ==
    \E r \in {process(StateOf, fftSize, F, [i \in Idx(F) |-> RZero], far, mic)} :
        /\ ~r.panicked
        /\ Install(r.self)
        /\ error_signal' = r.error_signal
        /\ mic_frame' = mic
        /\ calls' = calls + 1
        /\ farLog' = farLog \o ToSeq(far, F)
        /\ micLog' = micLog \o ToSeq(mic, F)
        /\ UNCHANGED <<fftSize, status>>

\* a process call with frames of the right length
Process ==
    /\ status = "ready"
    /\ calls < MaxCalls
    /\ LET F == FRAME_SIZE(fftSize)
       IN  \E far \in FarFrames(F), mic \in MicFrames(F) : Called(F, far, mic)

\* a process call with frames of a wrong length (a constant far frame, a
\* silent mic frame): the assertion panics
ProcessWrongFrame ==
    /\ status = "ready"
    /\ \E F \in FrameSizes(fftSize) \ {FRAME_SIZE(fftSize)} :
         \E far \in ConstantFrames(F), mic \in {[i \in Idx(F) |-> RZero]} :
             \E r \in {process(StateOf, fftSize, F, [i \in Idx(F) |-> RZero], far, mic)} :
                 /\ r.panicked
                 /\ Install(r.self)
                 /\ status' = "panicked"
                 /\ UNCHANGED <<fftSize, error_signal, mic_frame, calls, farLog, micLog>>

Next == Process \/ ProcessWrongFrame

Spec == Init /\ [][Next]_vars

-----------------------------------------------------------------------------
(* The same processor fed the whole range of f32: samples from -0.0 up to  *)
(* f32::MAX and an infinite step size next to the ordinary ones            *)

\* f32::MAX (0x7F7FFFFF), the largest finite sample
f32_MAX == F32(0, 254, 8388607)

WideStepSizes == StepSizes \cup {Inf(0)}

\* far and mic sample values: both zeros, an ordinary level and f32::MAX
WideFarSamples == {Zero(1), RZero, R(MaxSample), f32_MAX}

WideMicSamples == {Zero(1), R(MaxSample), f32_MAX}

\* far and mic frames: a constant level over the frame
WideFarFrames(F) == {[i \in Idx(F) |-> v] : v \in WideFarSamples}

WideMicFrames(F) == {[i \in Idx(F) |-> v] : v \in WideMicSamples}

InitWide == \E N \in FftSizes, step_size \in WideStepSizes : Started(N, step_size)

ProcessWide ==
    /\ status = "ready"
    /\ calls < MaxCalls
    /\ LET F == FRAME_SIZE(fftSize)
       IN  \E far \in WideFarFrames(F), mic \in WideMicFrames(F) : Called(F, far, mic)

NextWide == ProcessWide

SpecWide == InitWide /\ [][NextWide]_vars

-----------------------------------------------------------------------------
(* Construction alone, over every block length up to MaxFftSize *)

InitNew ==
    /\ fftSize \in 0 .. MaxFftSize
    /\ status = "unbuilt"
    /\ weights = <<>>
    /\ far_end_buffer = <<>>
    /\ x_t_buffer = <<>>
    /\ e_t_buffer = <<>>
    /\ psd = <<>>
    /\ y_t = <<>>
    /\ mu = RZero
    /\ smoothing_factor = RZero
    /\ error_signal = <<>>
    /\ mic_frame = <<>>
    /\ calls = 0
    /\ farLog = <<>>
    /\ micLog = <<>>

\* FdafAec::<fftSize>::new(step_size)
Construct ==
    /\ status = "unbuilt"
    /\ \E step_size \in StepSizes :
         \E r \in {New(fftSize, step_size)} :
             IF r.ok
             THEN /\ status' = "ready"
                  /\ Install(r.st)
                  /\ UNCHANGED <<fftSize, error_signal, mic_frame, calls, farLog, micLog>>
             ELSE /\ status' = "panicked"
                  /\ UNCHANGED <<fftSize, weights, far_end_buffer, x_t_buffer,
                                 e_t_buffer, y_t, psd, mu, smoothing_factor,
                                 error_signal, mic_frame, calls, farLog, micLog>>

NextNew == Construct

SpecNew == InitNew /\ [][NextNew]_vars

-----------------------------------------------------------------------------
(* Properties *)

M == FRAME_SIZE(fftSize)

Built == status # "unbuilt"

\* every far-end sample supplied since construction is zero (0.0 or -0.0)
FarSilent == \A i \in 1 .. Len(farLog) : IsZero(farLog[i])

\* every mic sample supplied since construction is zero (0.0 or -0.0)
MicSilent == \A i \in 1 .. Len(micLog) : IsZero(micLog[i])

WeightsZero == \A k \in DOMAIN weights : weights[k] = CZero

\* the last call returned the mic frame: out[i] == mic[i] as f32 values
OutIsMic == \A i \in DOMAIN error_signal : REq(error_signal[i], mic_frame[i])

\* C1: new panics exactly when FFT_SIZE is not a power of two or
\* FFT_SIZE / 2 < 1; it succeeds for every power of two from 2 to 2048.
C1_ConstructionGuard ==
    Built => (status = "ready" <=> (fftSize >= 2 /\ is_power_of_two(fftSize)))

\* C2: in every state of a constructed processor, a process call whose
\* frame length differs from FFT_SIZE / 2 panics and leaves every field of
\* the processor as it was.
C2_FrameSizeGuard ==
    status = "ready" =>
        \A F \in FrameSizes(fftSize) \ {M} :
            \A far \in ConstantFrames(F) :
                \E r \in {process(StateOf, fftSize, F, [i \in Idx(F) |-> RZero],
                                  far, [i \in Idx(F) |-> RZero])} :
                    r.panicked /\ r.self = StateOf

\* a wrong-length call has panicked on a processor that had adapted
C2_Witness ==
    status = "panicked" /\ calls >= 1 /\ ~WeightsZero

\* a sample in the nominal range: |x| <= 1.0
Nominal(x) == ~IsNaN(x) /\ ~MagLess(ROne, x)

FarNominal == \A i \in 1 .. Len(farLog) : Nominal(farLog[i])

MicNominal == \A i \in 1 .. Len(micLog) : Nominal(micLog[i])

\* C3 as stated: while every far-end sample ever supplied is zero, each call
\* returns its mic frame unchanged and every weight is still zero, whatever
\* the mic samples and mu are.
C3_SilentFarEndAsStated ==
    (calls >= 1 /\ FarSilent) => (OutIsMic /\ WeightsZero)

\* C3 amended: while every far-end sample ever supplied is zero, every mic
\* sample lies in the nominal range and mu is finite, each call returns its
\* mic frame unchanged and every weight is still zero.
C3_SilentFarEndAmended ==
    (calls >= 1 /\ FarSilent /\ MicNominal /\ is_finite(mu)) =>
        (OutIsMic /\ WeightsZero)

\* two silent-far-end calls with a non-zero mic frame and a non-zero mu
C3_Witness ==
    /\ calls >= 2 /\ FarSilent /\ fftSize = 4 /\ mu # RZero
    /\ MicNominal /\ is_finite(mu)
    /\ \E i \in DOMAIN mic_frame : ~IsZero(mic_frame[i])
    /\ OutIsMic /\ WeightsZero

\* C4 as stated: with mu = 0 every weight stays zero and every call returns
\* its mic frame unchanged, whatever the far and mic frames are.
C4_ZeroStepSizeAsStated ==
    (mu = RZero /\ calls >= 1) => (WeightsZero /\ OutIsMic)

\* C4 amended: with mu = 0 every weight stays zero and every call returns
\* its mic frame unchanged, for far and mic samples in the nominal range.
C4_ZeroStepSizeAmended ==
    (mu = RZero /\ calls >= 1 /\ FarNominal /\ MicNominal) =>
        (WeightsZero /\ OutIsMic)

\* mu = 0, two calls, a far end and a mic that were not silent
C4_Witness ==
    /\ mu = RZero /\ calls >= 2 /\ ~FarSilent /\ ~MicSilent
    /\ FarNominal /\ MicNominal
    /\ \E k \in DOMAIN x_t_buffer : x_t_buffer[k] # CZero
    /\ \E k \in DOMAIN e_t_buffer : e_t_buffer[k] # CZero
    /\ WeightsZero /\ OutIsMic

\* the first call on a fresh processor had a silent far frame and a constant
\* non-zero mic frame
ColdStart ==
    /\ calls = 1 /\ FarSilent
    /\ \A i \in DOMAIN mic_frame : mic_frame[i] = mic_frame[0] /\ ~IsZero(mic_frame[i])

\* C5 as stated: after the cold-start call the output is the mic frame, every
\* psd bin still holds its 1.0 seed and every weight is zero.
C5_ColdStartAsStated ==
    ColdStart =>
        /\ OutIsMic
        /\ \A k \in DOMAIN psd : psd[k] = PsdSeed
        /\ WeightsZero

\* C5 amended: after a cold-start call whose mic samples lie in the nominal
\* range, on a processor with a finite mu, the output is the mic frame,
\* every psd bin holds smoothing_factor times its seed (0.98) and every
\* weight is zero.
C5_ColdStartAmended ==
    (ColdStart /\ MicNominal /\ is_finite(mu)) =>
        /\ OutIsMic
        /\ \A k \in DOMAIN psd : psd[k] = Frac(98, 100)
        /\ WeightsZero

\* the cold-start call on a 4-point processor with mu = 1/2
C5_Witness ==
    ColdStart /\ MicNominal /\ fftSize = 4 /\ mu = Frac(1, 2) /\ status = "ready"

\* C6: after f calls whose far and mic frames are all zero, the output is
\* all zero and every psd bin is 0.98^f (f multiplications of the 1.0 seed
\* by the f32 0.98), which is positive.
C6_ZeroInputStability ==
    (Built /\ FarSilent /\ MicSilent) =>
        /\ \A i \in DOMAIN error_signal : IsZero(error_signal[i])
        /\ \A k \in DOMAIN psd :
              psd[k] = RPow(Frac(98, 100), calls) /\ RPos(psd[k])

\* three all-zero calls
C6_Witness ==
    /\ calls = 3 /\ FarSilent /\ MicSilent /\ fftSize = 4
    /\ \A k \in DOMAIN psd : psd[k] = F32(0, 126, 7401975)

\* C7 as stated: after construction and after every call, every psd bin is
\* positive, whatever finite samples the far and mic frames hold.
C7_PsdPositiveAsStated ==
    Built => \A k \in DOMAIN psd : RPos(psd[k])

\* C7 amended: after construction and after every call whose far samples,
\* like those of the calls before, lie in the nominal range, every psd bin
\* is positive.
C7_PsdPositiveAmended ==
    (Built /\ FarNominal) => \A k \in DOMAIN psd : RPos(psd[k])

\* after two calls some bin has decayed below its seed (its spectrum bin was
\* empty) and another has grown above it
C7_Witness ==
    /\ calls >= 2 /\ ~FarSilent /\ FarNominal
    /\ \E k \in DOMAIN psd : RLess(psd[k], ROne) /\ x_t_buffer[k] = CZero
    /\ \E k \in DOMAIN psd : RLess(ROne, psd[k])

\* the far-end samples ever supplied, after FFT_SIZE zeros
PaddedFar == [i \in 1 .. fftSize |-> RZero] \o farLog

\* C8: far_end_buffer has length FFT_SIZE and holds, oldest first, the last
\* FFT_SIZE far-end samples ever supplied, zeros standing for the samples
\* before the first; so its first half is the previous call's far frame and
\* its second half the current one.
C8_History ==
    status = "ready" =>
        /\ DOMAIN far_end_buffer = Idx(fftSize)
        /\ \A i \in Idx(fftSize) :
              far_end_buffer[i] = PaddedFar[Len(farLog) + i + 1]

\* after three calls the first far frame has left the buffer, whose two
\* halves differ
C8_Witness ==
    /\ calls = 3 /\ fftSize = 4 /\ status = "ready"
    /\ farLog[1] # RZero
    /\ far_end_buffer[0] # far_end_buffer[2]
    /\ far_end_buffer[0] # RZero

\* C9: in every call the echo estimate y_t is the scaled inverse transform of
\* W (.) X_f with W as the previous call left it, and the output is the mic
\* frame minus the second half of y_t; the weights written by the call play
\* no part in it.
C9_EstimateBeforeAdapt ==
    [][calls' = calls + 1 =>
          /\ y_t' = EstimateEcho(weights, x_t_buffer', fftSize)
          /\ \A i \in Idx(M) :
                error_signal'[i] = RSub(mic_frame'[i], y_t'[M + i])]_vars

\* a call whose echo estimate was not zero and which changed the weights
C9_Witness ==
    /\ calls >= 2 /\ mu # RZero
    /\ \E i \in Idx(M) : y_t[M + i] # RZero
    /\ ~OutIsMic
    /\ \E k \in DOMAIN weights : e_t_buffer[k] # CZero /\ x_t_buffer[k] # CZero

\* the psd of bin k after a call, from the psd before it and the call's
\* reference spectrum
PsdAfter(k) ==
    RAdd(RMul(smoothing_factor, psd[k]),
         RMul(RSub(ROne, smoothing_factor), norm_sqr(x_t_buffer'[k])))

\* C10: in every call the weight update of bin k divides by the psd of bin k
\* as updated in this same call from the current reference spectrum.
C10_PsdBeforeUpdate ==
    [][calls' = calls + 1 =>
          \A k \in Idx(fftSize) :
              \E den \in {PsdAfter(k)} :
              \E xe \in {CMul(conj(x_t_buffer'[k]), e_t_buffer'[k])} :
              \E grad \in {NlmsQuotient(xe, den)} :
              \E delta \in {CMul(grad, Cx(mu, RZero))} :
                  /\ psd'[k] = den
                  /\ weights'[k] = CAdd(weights[k], delta)]_vars

\* a call that moved a weight in a bin whose psd the same call had changed
C10_Witness ==
    /\ calls >= 2 /\ mu # RZero
    /\ \E k \in DOMAIN weights :
          /\ x_t_buffer[k] # CZero
          /\ e_t_buffer[k] # CZero
          /\ psd[k] # ROne
          /\ weights[k] # CZero

\* the output frame behind FFT_SIZE / 2 zeros, imaginary parts zero
PaddedError ==
    [i \in Idx(fftSize) |-> IF i < M THEN CZero
                                     ELSE Cx(error_signal[i - M], RZero)]

\* C11: after every call, e_t_buffer is the forward transform of the block
\* that is zero in its first FFT_SIZE / 2 entries and holds the output
\* frame, with zero imaginary part, in the other FFT_SIZE / 2, whatever
\* e_t_buffer held after the call before.
C11_FrontZeroPadding ==
    (status = "ready" /\ calls >= 1) => e_t_buffer = Fft(PaddedError, fftSize)

\* a call with a non-zero output on a processor whose e_t_buffer the first
\* call had left non-zero (its output was its non-zero mic frame)
C11_Witness ==
    /\ status = "ready" /\ calls >= 2
    /\ micLog[1] # RZero
    /\ \E i \in Idx(M) : error_signal[i] # RZero
    /\ \E k \in DOMAIN e_t_buffer : e_t_buffer[k] # CZero

====
